---- MODULE Spec2Model ----
(***************************************************************************)
(* A model of the iCloud Bridge Python client (src/python/icloudbridge.py):*)
(* the HTTP plumbing of iCloudBridge (_request, health, get_thumbnail,     *)
(* get_image, get_video, get_live_video) and the auto-paginator            *)
(* (_iter_photos over get_photos, reached through Album.photos).           *)
(*                                                                         *)
(* The transport is urllib.request.urlopen with the default opener: it     *)
(* returns a response object for every status in 200..299, raises          *)
(* HTTPError (a subclass of URLError) for every other status, and raises   *)
(* URLError when the connection cannot be made.                            *)
(***************************************************************************)
EXTENDS Integers, Sequences, FiniteSets, TLC

\* ------------------------------------------------------------------ bounds

\* Largest max_retries a caller passes to get_image in the model.
MaxRetries == 3
\* Largest Retry-After value (seconds) the server sends in the model.
MaxHint == 2

\* Largest collection the unchanging server holds.
MaxN == 250
\* Number of generator objects (accesses of Album.photos, .videos,
\* .live_photos) a run creates.
MaxGens == 2

\* ------------------------------------------------------- program constants

\* get_image: int(e.headers.get("Retry-After", "5"))
DefaultRetryAfter == 5
\* _iter_photos: limit = 100
PageLimit == 100
\* get_photos(..., limit: int = 100, ...) and its test limit != 100
DefaultLimit == 100

Min(a, b) == IF a < b THEN a ELSE b
Max(a, b) == IF a > b THEN a ELSE b

\* ------------------------------------------------------------------- state

VARIABLES
    call,    \* the client operation in progress (or finished), with its log
    srv,     \* the photo-listing endpoint's behaviour in this run
    gens,    \* the generator objects of the auto-paginator, by number
    token,   \* iCloudBridge._token, as given to the constructor
    mapping, \* one from_dict call: the class, the JSON object, the outcome
    dates,   \* one date string or datetime and what parsing/formatting gave
    rem      \* a Reminder object, its server-side twin and the threads using it

vars == <<call, srv, gens, token, mapping, dates, rem>>

\* ------------------------------------------------------- server and replies

\* Statuses the remote service answers with (spec section 6).
Statuses == {200, 202, 204, 404, 500}

\* What a response body holds, as far as the client's decoding can tell:
\*   "reason"      a JSON object with a "reason" string
\*   "object"      a JSON object without "reason"
\*   "nonobject"   valid JSON that is not an object (a list, a number)
\*   "malformed"   UTF-8 text that is not JSON
\*   "undecodable" bytes that are not UTF-8
\*   "empty"       no body
BodyKinds == {"reason", "object", "nonobject", "malformed", "undecodable", "empty"}

\* hint: the Retry-After header; NoHint when the header is absent, BadHint
\* when its value is not an integer literal (an HTTP-date).
NoHint == -1
BadHint == -2
Hints == {NoHint, BadHint} \cup (1..MaxHint)

HttpReply(s, b, h) == [kind |-> "http", status |-> s, body |-> b, hint |-> h]
NetErr == [kind |-> "neterr", status |-> 0, body |-> "empty", hint |-> NoHint]

\* Replies to a one-request operation.
Replies == {NetErr} \cup {HttpReply(s, b, NoHint) : s \in Statuses, b \in BodyKinds}

\* Replies of the image endpoint: the body is opaque bytes; only a 202
\* carries a Retry-After header.
ImageReplies ==
    {NetErr}
    \cup {HttpReply(s, "malformed", NoHint) : s \in Statuses \ {202, 204}}
    \cup {HttpReply(202, "malformed", h) : h \in Hints}

RECURSIVE SeqsOf(_, _)
SeqsOf(S, n) ==
    IF n = 0 THEN {<<>>}
    ELSE {Append(s, x) : s \in SeqsOf(S, n - 1), x \in S}

\* What the server would answer to the 1st, 2nd, ... request of one
\* get_image invocation.
ImageScripts == SeqsOf(ImageReplies, MaxRetries)

\* ---------------------------------------------------------------- transport

\* urllib.request.urlopen(request) with the default opener.
urlopen(reply) ==
    IF reply.kind = "neterr" THEN "URLError"
    ELSE IF 200 <= reply.status /\ reply.status < 300 THEN "response"
    ELSE "HTTPError"

\* ------------------------------------------------------------------ results

\* A finished operation: a returned value or a raised exception.
\*   kind   "return" or the exception class
\*   msg    which raise statement (for the base iCloudBridgeError)
\*   status_code, reason   APIError's attributes (0, "none" otherwise)
\*   value  what is returned: "bytes", "json", "None" ("none" when raising)
\*   from   index of the reply whose body is returned (0 otherwise)
Result(k, m, sc, r, v, f) ==
    [kind |-> k, msg |-> m, status_code |-> sc, reason |-> r, value |-> v, from |-> f]

NoResult == Result("none", "none", 0, "none", "none", 0)
Return(v, f) == Result("return", "none", 0, "none", v, f)
Raise(k, m) == Result(k, m, 0, "none", "none", 0)
RaiseAPIError(sc, r) == Result("APIError", "api error", sc, r, "none", 0)

\* json.loads(body.decode("utf-8")): the exception it raises, or "ok".
json_loads(body) ==
    CASE body = "undecodable" -> "UnicodeDecodeError"
      [] body \in {"malformed", "empty"} -> "JSONDecodeError"
      [] OTHER -> "ok"

\* ------------------------------------------------------------ call records

Idle ==
    [op |-> "none", pc |-> "idle", wait |-> FALSE, max_retries |-> 0,
     attempt |-> 0, script |-> <<>>, requests |-> <<>>, sleeps |-> <<>>,
     result |-> NoResult]

\* The token values a caller constructs the client with: None (the
\* default), the empty string, a real token.
Tokens == {"None", "", "secret"}

\* if self._token: the truth value of the attribute.
Truthy(tok) == tok \notin {"None", ""}

\* urllib.request.Request(url): what goes on the wire; auth is the
\* Authorization header ("none" when the request has no such header).
Request(path, query) == [path |-> path, query |-> query, auth |-> "none"]

\* _request: headers = {"Content-Type": ...}; if self._token:
\* headers["Authorization"] = f"Bearer {self._token}"
request_headers(req, tok) ==
    IF Truthy(tok) THEN [req EXCEPT !.auth = "Bearer " \o tok] ELSE req

\* A one-request operation, finished.
Finished(op, req, reply, res) ==
    [op |-> op, pc |-> "done", wait |-> FALSE, max_retries |-> 0,
     attempt |-> 0, script |-> <<reply>>, requests |-> <<req>>,
     sleeps |-> <<>>, result |-> res]

\* ------------------------------------------------------------- _request

\* The except-HTTPError branch of _request: 404 first, then the reason from
\* the error body, with str(e) when the body cannot be decoded or parsed.
\* error_body.get on JSON that is not an object raises AttributeError,
\* which the inner except clause does not catch.
request_http_error(reply) ==
    IF reply.status = 404 THEN Raise("NotFoundError", "resource not found")
    ELSE CASE json_loads(reply.body) # "ok" -> RaiseAPIError(reply.status, "str(e)")
           [] reply.body = "nonobject" -> Raise("AttributeError", "get")
           [] reply.body = "reason" -> RaiseAPIError(reply.status, "server")
           [] OTHER -> RaiseAPIError(reply.status, "str(e)")

\* The with-block of _request: None on 204, else the decoded JSON body; a
\* decoding error is raised inside the try block, where no except clause
\* matches it.
request_response(reply) ==
    IF reply.status = 204 THEN Return("None", 1)
    ELSE IF json_loads(reply.body) = "ok" THEN Return("json", 1)
    ELSE Raise(json_loads(reply.body), "loads")

\* iCloudBridge._request(method, path, data) against one server reply.
_request(reply) ==
    CASE urlopen(reply) = "response" -> request_response(reply)
      [] urlopen(reply) = "HTTPError" -> request_http_error(reply)
      [] OTHER -> Raise("iCloudBridgeError", "connection failed")

\* --------------------------------------------------------------- health

\* iCloudBridge.health(): the only except clause is URLError, which
\* HTTPError subclasses.
health(reply) ==
    CASE urlopen(reply) = "response" ->
            IF json_loads(reply.body) = "ok" THEN Return("json", 1)
            ELSE Raise(json_loads(reply.body), "loads")
      [] OTHER -> Raise("iCloudBridgeError", "health check failed")

\* ------------------------------------------- thumbnail, video, live video

\* The try block shared by get_thumbnail, get_video and get_live_video:
\* the body is returned unread; APIError carries str(e).
get_asset_without_404(reply) ==
    CASE urlopen(reply) = "response" -> Return("bytes", 1)
      [] urlopen(reply) = "HTTPError" -> RaiseAPIError(reply.status, "str(e)")
      [] OTHER -> Raise("iCloudBridgeError", "connection failed")

get_asset(reply) ==
    CASE urlopen(reply) = "response" -> Return("bytes", 1)
      [] urlopen(reply) = "HTTPError" ->
            IF reply.status = 404 THEN Raise("NotFoundError", "photo not found")
            ELSE RaiseAPIError(reply.status, "str(e)")
      [] OTHER -> Raise("iCloudBridgeError", "connection failed")

get_thumbnail(reply) == get_asset(reply)
get_video(reply) == get_asset(reply)
get_live_video(reply) == get_asset(reply)

\* ------------------------------------------------------------ get_image

LoopBound_at_least_once(c) == IF ~c.wait THEN Max(c.max_retries, 1) ELSE 1

\* range(max_retries if not wait else 1)
LoopBound(c) == IF ~c.wait THEN c.max_retries ELSE 1

\* int(e.headers.get("Retry-After", "5")); BadHint stands for the ValueError.
retry_after(reply) ==
    IF reply.hint = NoHint THEN DefaultRetryAfter ELSE reply.hint

\* The call has ended with result res.
Done(c, res) == [c EXCEPT !.pc = "done", !.result = res]

\* The except-HTTPError branch of get_image for the attempt c.attempt.
image_http_error(c, reply) ==
    CASE reply.status = 404 -> Done(c, Raise("NotFoundError", "photo not found"))
      [] reply.status = 202 ->
            IF c.wait
            THEN Done(c, Raise("iCloudBridgeError", "pending despite wait"))
            ELSE IF retry_after(reply) = BadHint
            THEN Done(c, Raise("ValueError", "int"))
            ELSE IF c.attempt < c.max_retries - 1
            THEN [c EXCEPT !.sleeps = Append(@, retry_after(reply)),
                           !.attempt = @ + 1]
            ELSE Done(c, Raise("iCloudBridgeError", "timed out"))
      [] OTHER -> Done(c, RaiseAPIError(reply.status, "str(e)"))

\* One pass of get_image's for loop: a fresh Request for the same url, and
\* the handling of what urlopen gives.
image_attempt(c) ==
    LET n == Len(c.requests) + 1
        reply == c.script[n]
        sent == [c EXCEPT !.requests =
                    Append(@, Request("/photos/{id}/image",
                                      IF c.wait THEN "wait=true" ELSE ""))]
    IN  CASE urlopen(reply) = "response" -> Done(sent, Return("bytes", n))
          [] urlopen(reply) = "HTTPError" -> image_http_error(sent, reply)
          [] OTHER -> Done(sent, Raise("iCloudBridgeError", "connection failed"))

\* ------------------------------------------------------------------ actions

\* client._request(...), as every JSON resource call makes it.
DoRequest ==
    /\ UNCHANGED <<srv, gens, token, mapping, dates, rem>>
    /\ call.pc = "idle"
    /\ \E reply \in Replies :
          call' = Finished("_request",
                           request_headers(Request("/resource", ""), token),
                           reply, _request(reply))

DoHealth ==
    /\ UNCHANGED <<srv, gens, token, mapping, dates, rem>>
    /\ call.pc = "idle"
    /\ \E reply \in Replies :
          call' = Finished("health", Request("/health", ""), reply, health(reply))

\* size is "medium" (no query) or another size (?size=...).
DoThumbnail ==
    /\ UNCHANGED <<srv, gens, token, mapping, dates, rem>>
    /\ call.pc = "idle"
    /\ \E reply \in Replies, size \in {"medium", "small"} :
          call' = Finished("get_thumbnail",
                           Request("/photos/{id}/thumbnail",
                                   IF size # "medium" THEN "size=small" ELSE ""),
                           reply, get_thumbnail(reply))

DoVideo ==
    /\ UNCHANGED <<srv, gens, token, mapping, dates, rem>>
    /\ call.pc = "idle"
    /\ \E reply \in Replies :
          call' = Finished("get_video", Request("/photos/{id}/video", ""), reply,
                           get_video(reply))

DoLiveVideo ==
    /\ UNCHANGED <<srv, gens, token, mapping, dates, rem>>
    /\ call.pc = "idle"
    /\ \E reply \in Replies :
          call' = Finished("get_live_video", Request("/photos/{id}/live-video", ""),
                           reply, get_live_video(reply))

\* get_image(photo_id, wait, max_retries) is entered; the server's answers
\* to come are fixed here so that claims can speak about them.
ImageCall ==
    /\ UNCHANGED <<srv, gens, token, mapping, dates, rem>>
    /\ call.pc = "idle"
    /\ \E w \in BOOLEAN, mr \in (-1)..MaxRetries, sc \in ImageScripts :
          call' = [Idle EXCEPT !.op = "get_image", !.pc = "loop", !.wait = w,
                               !.max_retries = mr, !.script = sc]

\* One iteration of the for loop.
ImageAttempt ==
    /\ UNCHANGED <<srv, gens, token, mapping, dates, rem>>
    /\ call.op = "get_image" /\ call.pc = "loop"
    /\ call.attempt < LoopBound(call)
    /\ call' = image_attempt(call)

\* The loop ran out (or never ran): raise iCloudBridgeError("Image download failed").
ImageLoopExit ==
    /\ UNCHANGED <<srv, gens, token, mapping, dates, rem>>
    /\ call.op = "get_image" /\ call.pc = "loop"
    /\ call.attempt >= LoopBound(call)
    /\ call' = Done(call, Raise("iCloudBridgeError", "download failed"))

\* ------------------------------------------------------- the photo listing

\* A query parameter get_photos leaves out of the path.
Omitted == -1

\* get_photos: the path it requests. limit, offset, sort and type are
\* appended only when they differ from the defaults.
get_photos_path(limit, offset, sort, media_type) ==
    [limit |-> IF limit # DefaultLimit THEN limit ELSE Omitted,
     offset |-> IF offset # 0 THEN offset ELSE Omitted,
     sort |-> IF sort # "album" THEN sort ELSE "",
     type |-> IF media_type # "None" THEN media_type ELSE ""]

\* The service's reading of the path: an omitted offset is 0, an omitted
\* limit is 100.
ServerOffset(path) == IF path.offset = Omitted THEN 0 ELSE path.offset
ServerLimit(path) == IF path.limit = Omitted THEN DefaultLimit ELSE path.limit

\* The unchanging server of n items 1..n: total = n and the items
\* [offset, offset + limit) of the collection.
StaticPage(n, path) ==
    [photos |-> [i \in 1..Max(0, Min(ServerLimit(path), n - ServerOffset(path)))
                    |-> ServerOffset(path) + i],
     total |-> n]

\* What the listing endpoint may answer to a page request.
PageReplies(path) ==
    IF srv.mode = "static" THEN {StaticPage(srv.n, path)}
    ELSE {[photos |-> [i \in 1..len |-> i], total |-> t] :
             len \in srv.lens, t \in srv.totals}

\* get_photos: (photos, total) out of the decoded response.
get_photos(data) == <<data.photos, data.total>>

\* ------------------------------------------------------------ _iter_photos

\* A generator object that has not been created yet. offset, total, batch
\* and pos (the place in yield from) are the generator frame's locals;
\* paths, totals, received and yielded log what it requested, what the
\* server reported and sent, and what the consumer got.
Unborn ==
    [pc |-> "unborn", media_type |-> "None", offset |-> 0, total |-> 0,
     batch |-> <<>>, pos |-> 0, paths |-> <<>>, totals |-> <<>>,
     received |-> <<>>, yielded |-> <<>>]

iter_photos_start_shared_cursor(media_type) ==
    [Unborn EXCEPT !.pc = "request", !.media_type = media_type,
                   !.offset = gens[1].offset]

\* Album.photos / .videos / .live_photos: a new generator over
\* _iter_photos(self.id[, media_type]); its body starts with offset = 0.
iter_photos_start(media_type) ==
    [Unborn EXCEPT !.pc = "request", !.media_type = media_type, !.offset = 0]

\* photos, total = self.get_photos(album_id, limit, offset, sort, media_type)
iter_photos_fetch(g, path, data) ==
    [g EXCEPT !.pc = "yield",
              !.paths = Append(@, path),
              !.totals = Append(@, data.total),
              !.batch = get_photos(data)[1],
              !.total = get_photos(data)[2],
              !.pos = 0,
              !.received = @ \o get_photos(data)[1]]

\* yield from photos: the next item of the batch goes to the consumer.
iter_photos_yield(g) ==
    [g EXCEPT !.pos = @ + 1, !.yielded = Append(@, g.batch[g.pos + 1])]

iter_photos_advance_gt(g) ==
    [g EXCEPT !.offset = @ + PageLimit,
              !.pc = IF g.offset + PageLimit > g.total
                     THEN "finished" ELSE "request"]

iter_photos_advance_by_batch(g) ==
    [g EXCEPT !.offset = @ + Len(g.batch),
              !.pc = IF g.offset + Len(g.batch) >= g.total
                     THEN "finished" ELSE "request"]

\* offset += limit; if offset >= total: break

iter_photos_advance(g) ==
    [g EXCEPT !.offset = @ + PageLimit,
              !.pc = IF g.offset + PageLimit >= g.total
                     THEN "finished" ELSE "request"]

\* next() on a generator whose body has returned: StopIteration, and the
\* generator stays as it is.
iter_photos_exhausted(g) == g

GenIds == 1..MaxGens

\* An album's photos, videos or live_photos property is read.
Iterate(i) ==
    /\ gens[i].pc = "unborn"
    /\ \A j \in 1..(i - 1) : gens[j].pc # "unborn"
    /\ \E mt \in srv.media_types :
          gens' = [gens EXCEPT ![i] = iter_photos_start(mt)]
    /\ UNCHANGED <<call, srv, token, mapping, dates, rem>>

\* The generator requests the page at its cursor.
Fetch(i) ==
    /\ gens[i].pc = "request"
    /\ LET path == get_photos_path(PageLimit, gens[i].offset, "album",
                                    gens[i].media_type)
       IN  \E data \in PageReplies(path) :
             gens' = [gens EXCEPT ![i] = iter_photos_fetch(@, path, data)]
    /\ UNCHANGED <<call, srv, token, mapping, dates, rem>>

\* The generator hands over one item of the batch.
Yield(i) ==
    /\ gens[i].pc = "yield" /\ gens[i].pos < Len(gens[i].batch)
    /\ gens' = [gens EXCEPT ![i] = iter_photos_yield(@)]
    /\ UNCHANGED <<call, srv, token, mapping, dates, rem>>

\* The batch is used up: the cursor moves and the loop ends or goes on.
Advance(i) ==
    /\ gens[i].pc = "yield" /\ gens[i].pos = Len(gens[i].batch)
    /\ gens' = [gens EXCEPT ![i] = iter_photos_advance(@)]
    /\ UNCHANGED <<call, srv, token, mapping, dates, rem>>

\* The consumer asks an exhausted generator for more.
NextAfterEnd(i) ==
    /\ gens[i].pc = "finished"
    /\ gens' = [gens EXCEPT ![i] = iter_photos_exhausted(@)]
    /\ UNCHANGED <<call, srv, token, mapping, dates, rem>>

\* ------------------------------------------------------------- from_dict

\* A decoded JSON object is a function from the keys of its class to
\* values; Absent marks a key the object does not have. "None" is Python's
\* None (a JSON null).
Absent == "<absent>"

\* The steps of each from_dict in the order the source evaluates them:
\*   index    data[key]
\*   get      data.get(key)
\*   date     _parse_iso_date(data[key])
\*   optdate  None, or _parse_iso_date(data[key]) if data.get(key)
Step(field, key, how) == [field |-> field, key |-> key, how |-> how]

ReminderListSteps ==
    << Step("id", "id", "index"), Step("title", "title", "index"),
       Step("color", "color", "get"),
       Step("reminder_count", "reminderCount", "index") >>

ReminderSteps ==
    << Step("due_date", "dueDate", "optdate"),
       Step("completion_date", "completionDate", "optdate"),
       Step("id", "id", "index"), Step("title", "title", "index"),
       Step("notes", "notes", "get"),
       Step("is_completed", "isCompleted", "index"),
       Step("priority", "priority", "index"),
       Step("list_id", "listId", "index") >>

AlbumSteps ==
    << Step("start_date", "startDate", "optdate"),
       Step("end_date", "endDate", "optdate"),
       Step("id", "id", "index"), Step("title", "title", "index"),
       Step("album_type", "albumType", "index"),
       Step("photo_count", "photoCount", "index"),
       Step("video_count", "videoCount", "index") >>

PhotoSteps ==
    << Step("creation_date", "creationDate", "date"),
       Step("modification_date", "modificationDate", "optdate"),
       Step("id", "id", "index"), Step("album_id", "albumId", "index"),
       Step("media_type", "mediaType", "index"),
       Step("width", "width", "index"), Step("height", "height", "index"),
       Step("is_favorite", "isFavorite", "index"),
       Step("is_hidden", "isHidden", "index"),
       Step("filename", "filename", "get"),
       Step("file_size", "fileSize", "get") >>

StepsOf(cls) ==
    CASE cls = "ReminderList" -> ReminderListSteps
      [] cls = "Reminder" -> ReminderSteps
      [] cls = "Album" -> AlbumSteps
      [] cls = "Photo" -> PhotoSteps

\* The values a key can have in a server object: required keys hold a value
\* when present; optional strings may be null or empty; optional numbers
\* and dates may be null.
ValuesFor(st) ==
    CASE st.how = "index" -> {Absent, "v"}
      [] st.how = "date" -> {Absent, "2024-01-15T10:30:00Z"}
      [] st.how = "optdate" -> {Absent, "None", "2024-01-15T10:30:00Z"}
      [] st.key = "fileSize" -> {Absent, "None", "v"}
      [] OTHER -> {Absent, "None", "", "v"}

KeysOf(steps) == {steps[i].key : i \in 1..Len(steps)}
PosOf(steps, k) == CHOOSE i \in 1..Len(steps) : steps[i].key = k

RECURSIVE ValueRows(_, _)
ValueRows(steps, n) ==
    IF n = 0 THEN {<< >>}
    ELSE {Append(row, v) : row \in ValueRows(steps, n - 1),
                           v \in ValuesFor(steps[n])}

JsonObjects(cls) ==
    LET steps == StepsOf(cls)
    IN  {[k \in KeysOf(steps) |-> row[PosOf(steps, k)]] :
            row \in ValueRows(steps, Len(steps))}

\* The datetime _parse_iso_date makes of a date string (its arithmetic is
\* modelled by parse_iso_date below).
Parsed(v) == "datetime(" \o v \o ")"

dict_get_placeholder(data, k) == IF data[k] = Absent THEN "" ELSE data[k]

\* data.get(key)
dict_get(data, k) == IF data[k] = Absent THEN "None" ELSE data[k]

\* if data.get(key): ...
truth(v) == v \notin {"None", ""}

\* data[key] raises KeyError when the key is absent.
dict_index_raises(data, k) == data[k] = Absent

\* The value one step gives to its field.
step_value(data, st) ==
    CASE st.how = "index" -> data[st.key]
      [] st.how = "get" -> dict_get(data, st.key)
      [] st.how = "date" -> Parsed(data[st.key])
      [] st.how = "optdate" ->
            IF truth(dict_get(data, st.key)) THEN Parsed(data[st.key]) ELSE "None"

\* The steps that raise KeyError on this object, by position.
raising_steps(data, steps) ==
    {i \in 1..Len(steps) :
        /\ steps[i].how \in {"index", "date"}
        /\ dict_index_raises(data, steps[i].key)}

\* cls.from_dict(data): the record, or the KeyError of the first failing
\* subscript.
from_dict(cls, data) ==
    LET steps == StepsOf(cls)
        bad == raising_steps(data, steps)
    IN  IF bad # {}
        THEN [kind |-> "KeyError",
              key |-> steps[CHOOSE i \in bad : \A j \in bad : i <= j].key,
              record |-> <<>>]
        ELSE [kind |-> "record", key |-> "",
              record |-> [i \in 1..Len(steps) |-> step_value(data, steps[i])]]

NoMapping == [cls |-> "none"]

\* One from_dict call on one server object.
FromDict(cls) ==
    /\ mapping = NoMapping
    /\ \E data \in JsonObjects(cls) :
          mapping' = [cls |-> cls, data |-> data, out |-> from_dict(cls, data)]
    /\ UNCHANGED <<call, srv, gens, token, dates, rem>>

\* ----------------------------------------------------------------- dates

\* A date string is its parts: the wall-clock text YYYY-MM-DDTHH:MM:SS as
\* seconds since 2024-01-01T00:00:00, the fractional part in microseconds
\* (NoFrac when the string has none), the zone suffix, and whether text that
\* is not part of an ISO date follows the seconds (with a fractional part,
\* as in "...10:30:00.5 UTC"; without one, "...10:30:00 UTC").
NoFrac == -1
DateText(wall, frac, zone, junk) ==
    [wall |-> wall, frac |-> frac, zone |-> zone, junk |-> junk]

Walls == {0, 37800, 86399}
Zones == {"Z", "+02:00", "-05:00", ""}
DateStrings ==
    {DateText(w, f, z, j) : w \in Walls, f \in {NoFrac, 0, 500000},
                            z \in Zones, j \in BOOLEAN}

\* The UTC offset, in seconds, a zone suffix denotes.
utcoffset(zone) ==
    CASE zone = "+02:00" -> 7200
      [] zone = "-05:00" -> 0 - 18000
      [] OTHER -> 0

\* A datetime: wall-clock seconds, microsecond, and tzinfo as its UTC offset
\* in seconds ("naive" with offset 0 when tzinfo is None).
Datetime(wall, micro, tz, off) ==
    [wall |-> wall, micro |-> micro, tz |-> tz, off |-> off]
NoDatetime == Datetime(0, 0, "none", 0)
Parse(dt) == [kind |-> "datetime", dt |-> dt]
ParseError == [kind |-> "ValueError", dt |-> NoDatetime]
NoParse == [kind |-> "none", dt |-> NoDatetime]

Datetimes ==
    {Datetime(w, m, "aware", utcoffset(z)) :
        w \in Walls, m \in {0, 500000}, z \in Zones \ {""}}
      \cup {Datetime(w, m, "naive", 0) : w \in Walls, m \in {0, 500000}}

\* date_str.replace("Z", "+00:00")
replace_Z(str) == [str EXCEPT !.zone = IF @ = "Z" THEN "+00:00" ELSE @]

\* datetime.fromisoformat(date_str)
fromisoformat(str) ==
    IF str.junk THEN ParseError
    ELSE Parse(Datetime(str.wall,
                        IF str.frac = NoFrac THEN 0 ELSE str.frac,
                        IF str.zone = "" THEN "naive" ELSE "aware",
                        utcoffset(str.zone)))

\* datetime.strptime(text, "%Y-%m-%dT%H:%M:%S") of the fallback: the text
\* before the first "." when there is one, else the whole string.
strptime_fallback(str) ==
    IF str.frac # NoFrac THEN Parse(Datetime(str.wall, 0, "naive", 0))
    ELSE IF str.junk \/ str.zone # "" THEN ParseError
    ELSE Parse(Datetime(str.wall, 0, "naive", 0))

_parse_iso_date(date_str) ==
    LET str == replace_Z(date_str)
    IN  IF fromisoformat(str).kind = "datetime" THEN fromisoformat(str)
        ELSE strptime_fallback(str)

_format_iso_date_with_fraction(dt) ==
    DateText(dt.wall, dt.micro, "Z", FALSE)

\* dt.strftime("%Y-%m-%dT%H:%M:%SZ")
_format_iso_date(dt) == DateText(dt.wall, NoFrac, "Z", FALSE)

NoText == DateText(0, NoFrac, "none", FALSE)
NoDates ==
    [op |-> "none", input |-> NoText, first |-> NoParse, given |-> NoDatetime,
     text |-> NoText, again |-> NoParse]

\* A mapper parses a date string of a server object.
ParseServerDate ==
    /\ dates.op = "none"
    /\ \E str \in DateStrings :
          dates' = [dates EXCEPT !.op = "parsed", !.input = str,
                                 !.first = _parse_iso_date(str)]
    /\ UNCHANGED <<call, srv, gens, token, mapping, rem>>

\* The parsed datetime is formatted for a request (a record's due_date
\* handed back to update_reminder).
FormatParsed ==
    /\ dates.op = "parsed" /\ dates.first.kind = "datetime"
    /\ dates' = [dates EXCEPT !.op = "formatted", !.given = dates.first.dt,
                              !.text = _format_iso_date(dates.first.dt)]
    /\ UNCHANGED <<call, srv, gens, token, mapping, rem>>

\* The server echoes the date string, and the mapper parses it again.
ParseAgain ==
    /\ dates.op = "formatted"
    /\ dates' = [dates EXCEPT !.op = "reparsed",
                              !.again = _parse_iso_date(dates.text)]
    /\ UNCHANGED <<call, srv, gens, token, mapping, rem>>

\* create_reminder / update_reminder format the caller's due_date.
FormatOutbound ==
    /\ dates.op = "none"
    /\ \E dt \in Datetimes :
          dates' = [dates EXCEPT !.op = "outbound", !.given = dt,
                                 !.text = _format_iso_date(dt)]
    /\ UNCHANGED <<call, srv, gens, token, mapping, rem>>

\* ------------------------------------------------------------- reminders

\* The record a from_dict call returns, by field name.
RecordOf(cls, row) ==
    LET steps == StepsOf(cls)
    IN  [f \in {steps[i].field : i \in 1..Len(steps)} |->
            row[CHOOSE i \in 1..Len(steps) : steps[i].field = f]]

\* Date strings of the reminder service: a due date, and the completion
\* date it stamps on a completed reminder.
DueAt == "2024-01-15T10:30:00Z"
CompletedAt == "2024-02-01T09:00:00Z"

\* The server-side reminder, as the JSON object the service answers with.
ServerReminder(done) ==
    [id |-> "r1", title |-> "a", notes |-> "n", isCompleted |-> done,
     priority |-> "1", dueDate |-> DueAt,
     completionDate |-> IF done = "True" THEN CompletedAt ELSE "None",
     listId |-> "L"]

\* The service applying a PUT /reminders/{id} body: the keys the body has
\* replace the stored values; isCompleted also sets or clears
\* completionDate.
server_update(stored, payload) ==
    [k \in DOMAIN stored |->
        IF k \in DOMAIN payload /\ payload[k] # Absent THEN payload[k]
        ELSE IF k = "completionDate" /\ payload["isCompleted"] # Absent
        THEN (IF payload["isCompleted"] = "True" THEN CompletedAt ELSE "None")
        ELSE stored[k]]

\* Replies to the update request.
UpdateReplies ==
    {NetErr, HttpReply(200, "object", NoHint), HttpReply(200, "malformed", NoHint),
     HttpReply(404, "reason", NoHint), HttpReply(500, "reason", NoHint)}

\* _format_iso_date of a due date parsed from a whole-second UTC string:
\* the string it was parsed from.
format_due_date(dt) == CHOOSE str \in {DueAt, CompletedAt} : Parsed(str) = dt

\* update_reminder: the payload holds the arguments that are not None.
update_reminder_payload(title, notes, is_completed, priority, due_date) ==
    [title |-> IF title # "None" THEN title ELSE Absent,
     notes |-> IF notes # "None" THEN notes ELSE Absent,
     isCompleted |-> IF is_completed # "None" THEN is_completed ELSE Absent,
     priority |-> IF priority # "None" THEN priority ELSE Absent,
     dueDate |-> IF due_date # "None" THEN format_due_date(due_date) ELSE Absent]

\* The update request each Reminder method makes of the object's fields.
method_payload(op, self) ==
    CASE op = "save" ->
            update_reminder_payload(self.title, self.notes, "None",
                                    self.priority, self.due_date)
      [] op = "complete" ->
            update_reminder_payload("None", "None", "True", "None", "None")
      [] op = "uncomplete" ->
            update_reminder_payload("None", "None", "False", "None", "None")

assigned_fields_all(op) ==
    <<"title", "notes", "is_completed", "priority", "due_date", "completion_date">>

\* The fields each method copies from the response, in program order.
assigned_fields(op) ==
    IF op = "save"
    THEN <<"title", "notes", "is_completed", "priority", "due_date",
           "completion_date">>
    ELSE <<"is_completed", "completion_date">>

Threads == {"t1", "t2"}
Methods == {"save", "complete", "uncomplete"}

NoReminder == RecordOf("Reminder", [i \in 1..Len(ReminderSteps) |-> "none"])
NoPayload == update_reminder_payload("None", "None", "None", "None", "None")
IdleThread ==
    [pc |-> "idle", op |-> "none", before |-> NoReminder, payload |-> NoPayload,
     updated |-> NoReminder, i |-> 0, result |-> NoResult]

NoRem == [obj |-> NoReminder, server |-> ServerReminder("none"),
          thr |-> [t \in Threads |-> IdleThread]]

\* The values the caller assigns to a Reminder's fields between calls.
FieldValues(f) ==
    CASE f = "title" -> {"a", "b"}
      [] f = "notes" -> {"None", "n"}
      [] f = "priority" -> {"0", "1"}
      [] f = "due_date" -> {"None", Parsed(DueAt)}

\* The caller assigns a field of the object (reminder.notes = None).
Edit ==
    /\ \A t \in Threads : rem.thr[t].pc = "idle"
    /\ \E f \in {"title", "notes", "priority", "due_date"} :
          \E v \in FieldValues(f) : rem' = [rem EXCEPT !.obj[f] = v]
    /\ UNCHANGED <<call, srv, gens, token, mapping, dates>>

\* A thread enters save(), complete() or uncomplete(): the arguments are
\* read from the object and update_reminder builds the payload.
CallMethod(t) ==
    /\ rem.thr[t].pc = "idle"
    /\ \E op \in Methods :
          rem' = [rem EXCEPT !.thr[t] =
                    [IdleThread EXCEPT !.pc = "request", !.op = op,
                                       !.before = rem.obj,
                                       !.payload = method_payload(op, rem.obj)]]
    /\ UNCHANGED <<call, srv, gens, token, mapping, dates>>

\* The request is answered: a 200 means the service applied the payload and
\* answers with the stored reminder, which from_dict maps; anything else
\* (and a body that does not decode) raises out of the method.
Respond(t) ==
    /\ rem.thr[t].pc = "request"
    /\ \E reply \in UpdateReplies :
          LET stored == IF reply.kind = "http" /\ reply.status = 200
                        THEN server_update(rem.server, rem.thr[t].payload)
                        ELSE rem.server
              res == _request(reply)
          IN  rem' = [rem EXCEPT
                  !.server = stored,
                  !.thr[t] =
                      IF res.kind = "return"
                      THEN [@ EXCEPT !.pc = "assign", !.i = 1,
                              !.updated = RecordOf("Reminder",
                                  from_dict("Reminder", stored).record)]
                      ELSE [@ EXCEPT !.pc = "done", !.result = res]]
    /\ UNCHANGED <<call, srv, gens, token, mapping, dates>>

\* One assignment self.<field> = updated.<field>; after the last one the
\* method returns self.
Assign(t) ==
    /\ rem.thr[t].pc = "assign"
    /\ LET th == rem.thr[t]
           fields == assigned_fields(th.op)
           f == fields[th.i]
       IN  rem' = [rem EXCEPT
               !.obj[f] = th.updated[f],
               !.thr[t] = IF th.i = Len(fields)
                          THEN [@ EXCEPT !.pc = "done", !.result = Return("self", 1)]
                          ELSE [@ EXCEPT !.i = th.i + 1]]
    /\ UNCHANGED <<call, srv, gens, token, mapping, dates>>

\* --------------------------------------------------------- specifications

NoServer == [mode |-> "none", n |-> 0, lens |-> {}, totals |-> {},
             media_types |-> {}]
NoGens == [i \in GenIds |-> Unborn]

\* The parts of the state a specification does not use.
NoPaging == srv = NoServer /\ gens = NoGens
NoRecords == mapping = NoMapping /\ dates = NoDates /\ rem = NoRem

\* The HTTP operations of the client, one call per run.
Init == call = Idle /\ token \in Tokens /\ NoPaging /\ NoRecords

Next ==
    \/ DoRequest
    \/ DoHealth
    \/ DoThumbnail
    \/ DoVideo
    \/ DoLiveVideo
    \/ ImageCall
    \/ ImageAttempt
    \/ ImageLoopExit

Spec == Init /\ [][Next]_vars

\* One full iteration of Album.photos against an unchanging collection.
InitStatic ==
    /\ call = Idle
    /\ \E n \in 0..MaxN :
          srv = [mode |-> "static", n |-> n, lens |-> {}, totals |-> {},
                 media_types |-> {"None"}]
    /\ gens = NoGens
    /\ token = "None" /\ NoRecords

NextStatic == Iterate(1) \/ Fetch(1) \/ Yield(1) \/ Advance(1) \/ NextAfterEnd(1)

SpecStatic == InitStatic /\ [][NextStatic]_vars

\* One iteration against a server that answers each page request with any
\* batch (empty, short, full, over-long) and any total.
InitAny ==
    /\ call = Idle
    /\ srv = [mode |-> "any", n |-> 0,
              lens |-> {0, 1, PageLimit, PageLimit + 1},
              totals |-> {0, PageLimit, PageLimit + 1, 2 * PageLimit + 1},
              media_types |-> {"None"}]
    /\ gens = NoGens
    /\ token = "None" /\ NoRecords

SpecAny == InitAny /\ [][NextStatic]_vars

\* Several iterations, interleaved at will, against a server whose answers
\* change from request to request.
InitIter ==
    /\ call = Idle
    /\ srv = [mode |-> "any", n |-> 0, lens |-> {0, 1},
              totals |-> {0, PageLimit + 1},
              media_types |-> {"None", "video", "live"}]
    /\ gens = NoGens
    /\ token = "None" /\ NoRecords

NextIter ==
    \E i \in GenIds :
        Iterate(i) \/ Fetch(i) \/ Yield(i) \/ Advance(i) \/ NextAfterEnd(i)

SpecIter == InitIter /\ [][NextIter]_vars

\* The typed mapper: one from_dict call per run.
InitMap ==
    /\ call = Idle /\ token = "None" /\ NoPaging
    /\ mapping = NoMapping /\ dates = NoDates /\ rem = NoRem

NextMap ==
    \/ FromDict("ReminderList")
    \/ FromDict("Reminder")
    \/ FromDict("Album")
    \/ FromDict("Photo")

SpecMap == InitMap /\ [][NextMap]_vars

\* Date parsing and formatting: a server date's round trip, or one
\* outbound date.
InitDate ==
    /\ call = Idle /\ token = "None" /\ NoPaging
    /\ mapping = NoMapping /\ dates = NoDates /\ rem = NoRem

NextDate == ParseServerDate \/ FormatParsed \/ ParseAgain \/ FormatOutbound

SpecDate == InitDate /\ [][NextDate]_vars

\* A Reminder fetched from the service, then edited and updated.
InitRem ==
    /\ call = Idle /\ token = "None" /\ NoPaging
    /\ mapping = NoMapping /\ dates = NoDates
    /\ \E done \in {"True", "False"} :
          rem = [obj |-> RecordOf("Reminder",
                            from_dict("Reminder", ServerReminder(done)).record),
                 server |-> ServerReminder(done),
                 thr |-> [t \in Threads |-> IdleThread]]

\* One thread uses the object.
NextSave == Edit \/ CallMethod("t1") \/ Respond("t1") \/ Assign("t1")

SpecSave == InitRem /\ [][NextSave]_vars

\* Two threads use the same object.
NextRace ==
    \/ Edit
    \/ \E t \in Threads : CallMethod(t) \/ Respond(t) \/ Assign(t)

SpecRace == InitRem /\ [][NextRace]_vars

\* ======================================================= get_image claims

\* The reply the server gave to the i-th request of the call.
Seen(i) == call.script[i]
Sent == Len(call.requests)
Is202(r) == r.kind = "http" /\ r.status = 202 /\ r.hint # BadHint
ImageDone == call.op = "get_image" /\ call.pc = "done"
TimedOut == call.result.kind = "iCloudBridgeError" /\ call.result.msg = "timed out"

\* C1: in polling mode with max_retries = N >= 1, when the server answers
\* every attempt with 202, get_image ends after exactly N requests with the
\* timeout error (not NotFoundError, not APIError), and no invocation ever
\* issues more than N requests.
C1_AllPendingTimesOut ==
    /\ (call.op = "get_image" /\ ~call.wait /\ call.max_retries >= 1)
          => Sent <= call.max_retries
    /\ (/\ ImageDone /\ ~call.wait /\ call.max_retries >= 1
        /\ \A i \in 1..call.max_retries : Is202(Seen(i)))
          => Sent = call.max_retries /\ TimedOut

\* C2: in polling mode, when the server answers the first k attempts with
\* 202 and attempt k+1 with 200 (k < max_retries), get_image returns the
\* body of reply k+1 after exactly k+1 identical requests and exactly k
\* sleeps, the i-th sleep lasting the Retry-After of the i-th 202 (5 when
\* the header is absent).
C2_PollUntilReady ==
    \A k \in 0..(MaxRetries - 1) :
        (/\ ImageDone /\ ~call.wait /\ k < call.max_retries
         /\ \A i \in 1..k : Is202(Seen(i))
         /\ Seen(k + 1).kind = "http" /\ Seen(k + 1).status = 200)
          => /\ call.result = Return("bytes", k + 1)
             /\ Sent = k + 1
             /\ \A i \in 1..Sent : call.requests[i] = call.requests[1]
             /\ call.sleeps = [i \in 1..k |-> retry_after(Seen(i))]

\* C3: in blocking mode get_image issues exactly one request whatever
\* max_retries is and never sleeps; when that request is answered with 202
\* the call raises the base iCloudBridgeError, which is not the timeout.
C3_BlockingPendingIsError ==
    (ImageDone /\ call.wait)
      => /\ Sent = 1 /\ call.sleeps = <<>>
         /\ Is202(Seen(1))
              => call.result.kind = "iCloudBridgeError" /\ ~TimedOut

\* C4: a polling get_image invocation (max_retries >= 1) answered by server
\* statuses follows the state machine: it goes on to another request only
\* after a 202, and it ends as Succeeded on a 2xx that is not the pending
\* status, as NotFound on 404, as TimedOut on the 202 that exhausts the
\* attempts, and as Failed (APIError) on any other status.
C4_StateMachine ==
    (/\ call.op = "get_image" /\ ~call.wait /\ call.max_retries >= 1
     /\ \A i \in 1..Sent : Seen(i).kind = "http" /\ Seen(i).hint # BadHint)
      => /\ \A i \in 1..(Sent - 1) : Seen(i).status = 202
         /\ call.pc = "loop" => (Sent = 0 \/ Seen(Sent).status = 202)
         /\ call.pc = "done" =>
              CASE Seen(Sent).status = 202 ->
                       TimedOut /\ Sent = call.max_retries
                [] Seen(Sent).status = 404 -> call.result.kind = "NotFoundError"
                [] Seen(Sent).status \in 200..299 ->
                       call.result = Return("bytes", Sent)
                [] OTHER ->
                       /\ call.result.kind = "APIError"
                       /\ call.result.status_code = Seen(Sent).status

\* ===================================================== error-mapping claims

Answered404 == Sent >= 1 /\ Seen(Sent).kind = "http" /\ Seen(Sent).status = 404

\* C5 (as stated): a 404 from any endpoint, health included, surfaces as
\* NotFoundError.
C5_Every404IsNotFound ==
    (call.pc = "done" /\ Answered404) => call.result.kind = "NotFoundError"

\* C5 (amended): a 404 from _request, thumbnail, image, video or live-video
\* ends the call at once with NotFoundError; a 404 from health surfaces as
\* the base iCloudBridgeError of the health check, not as NotFoundError and
\* not as APIError.
C5_NotFoundMapping ==
    /\ \A i \in 1..Sent :
          (Seen(i).kind = "http" /\ Seen(i).status = 404)
            => i = Sent /\ call.pc = "done"
    /\ (call.pc = "done" /\ Answered404)
          => IF call.op = "health"
             THEN call.result = Raise("iCloudBridgeError", "health check failed")
             ELSE call.result.kind = "NotFoundError"

C5_Witness ==
    /\ call.op = "get_video" /\ call.pc = "done" /\ Answered404
    /\ call.result.kind = "NotFoundError"

\* C9: thumbnail, video and live-video retrieval issue exactly one request,
\* and a status that is neither a success nor 404 surfaces as APIError with
\* that status and with the reason string of the response body, the
\* fallback string being used only when the body holds no reason.
C9_AssetErrorCarriesReason ==
    (call.pc = "done" /\ call.op \in {"get_thumbnail", "get_video", "get_live_video"})
      => /\ Sent = 1
         /\ (urlopen(Seen(1)) = "HTTPError" /\ Seen(1).status # 404)
              => /\ call.result.kind = "APIError"
                 /\ call.result.status_code = Seen(1).status
                 /\ call.result.reason =
                        IF Seen(1).body = "reason" THEN "server" ELSE "str(e)"

\* C10: every failure is one of the library's error kinds; a transport
\* failure, and a success response whose body cannot be decoded or parsed
\* where the operation decodes it, is the base iCloudBridgeError.
LibraryKinds == {"NotFoundError", "APIError", "iCloudBridgeError"}
C10_OnlyLibraryErrors ==
    call.pc = "done"
      => /\ call.result.kind \in LibraryKinds \cup {"return"}
         /\ (Sent >= 1 /\ Seen(Sent).kind = "neterr")
              => call.result.kind = "iCloudBridgeError"
         /\ (/\ Sent >= 1 /\ call.op \in {"_request", "health"}
             /\ urlopen(Seen(Sent)) = "response" /\ Seen(Sent).status # 204
             /\ json_loads(Seen(Sent).body) # "ok")
              => call.result.kind = "iCloudBridgeError"

\* ======================================================== paginator claims

\* The offsets the service read out of the first k page requests of g.
OffsetsOf(g) == [k \in 1..Len(g.paths) |-> ServerOffset(g.paths[k])]
Last(q) == q[Len(q)]

\* C6: against an unchanging collection of N items served in pages of 100
\* with total = N, a fully consumed iteration has issued exactly
\* max(1, ceil(N/100)) requests, at offsets 0, 100, 200, ... in that order,
\* and has yielded exactly the items 1..N in server order; what it has
\* yielded so far is always the collection's first items, none repeated or
\* skipped.
C6_StaticIteration ==
    LET g == gens[1] IN
    /\ \A i \in 1..Len(g.yielded) : g.yielded[i] = i
    /\ OffsetsOf(g) = [k \in 1..Len(g.paths) |-> (k - 1) * 100]
    /\ g.pc = "finished"
         => /\ Len(g.paths) = Max(1, (srv.n + 99) \div 100)
            /\ g.yielded = [i \in 1..srv.n |-> i]

C6_Witness ==
    /\ srv.mode = "static" /\ srv.n = 250
    /\ gens[1].pc = "finished" /\ Len(gens[1].paths) = 3
    /\ Len(gens[1].yielded) = 250

\* C7: whatever batches and totals the server sends, the cursor is 100
\* times the number of pages used up, whatever their lengths; after a page
\* the generator requests another iff its cursor is below the total of the
\* most recent response and stops iff it is not; and the items handed to
\* the consumer are the received batches, whole and in order.
C7_TotalDecidesTermination ==
    LET g == gens[1] IN
    /\ g.pc = "yield" => g.offset = 100 * (Len(g.paths) - 1)
    /\ g.pc \in {"request", "finished"} => g.offset = 100 * Len(g.paths)
    /\ (g.pc = "request" /\ g.paths # <<>>) => g.offset < Last(g.totals)
    /\ g.pc = "finished" => g.offset >= Last(g.totals)
    /\ g.pc \in {"request", "finished"} => g.yielded = g.received
    /\ g.pc = "yield"
         => g.yielded \o SubSeq(g.batch, g.pos + 1, Len(g.batch)) = g.received

\* A batch of one item did not end the iteration, and a batch of 101 items
\* did not prolong it.
C7_Witness ==
    /\ srv.mode = "any" /\ gens[1].pc = "finished"
    /\ Len(gens[1].paths) = 2 /\ Len(gens[1].yielded) = 102

\* C8: every generator starts with its cursor at 0 and issues its own page
\* requests at offsets 0, 100, ...: what it yields is what its own requests
\* received and the total it compares with is the one of its own latest
\* response; and a generator that has finished never runs again.
C8_FreshIteration ==
    /\ [](\A i \in GenIds :
            LET g == gens[i] IN
            /\ OffsetsOf(g) = [k \in 1..Len(g.paths) |-> (k - 1) * 100]
            /\ g.pc = "request" => g.offset = 100 * Len(g.paths)
            /\ g.pc \in {"yield", "finished"}
                 => g.paths # <<>> /\ g.total = Last(g.totals)
            /\ g.paths = <<>> => g.received = <<>>
            /\ \A k \in 1..Len(g.yielded) : g.yielded[k] = g.received[k])
    /\ [][\A i \in GenIds : gens[i].pc = "finished" => gens'[i] = gens[i]]_vars

\* Two iterations have both run to their end, the second one over two
\* pages of its own.
C8_Witness ==
    /\ gens[1].pc = "finished" /\ Len(gens[1].paths) = 1
    /\ gens[2].pc = "finished" /\ Len(gens[2].paths) = 2

\* ============================================== get_image claims, continued

\* C17: get_image never returns the body of a 202 response as image data.
C17_PendingBodyNotReturned ==
    (ImageDone /\ call.result.kind = "return")
      => Seen(call.result.from).status # 202

\* C18: in polling mode with max_retries <= 0 get_image issues no request,
\* never sleeps and raises the base iCloudBridgeError "Image download
\* failed"; with max_retries >= 1 (and in blocking mode) that fall-through
\* raise is never reached.
DownloadFailed == Raise("iCloudBridgeError", "download failed")
C18_EmptyLoopFallsThrough ==
    /\ (call.op = "get_image" /\ ~call.wait /\ call.max_retries <= 0)
         => /\ Sent = 0 /\ call.sleeps = <<>>
            /\ call.pc = "done" => call.result = DownloadFailed
    /\ (ImageDone /\ (call.wait \/ call.max_retries >= 1))
         => Sent >= 1 /\ call.result # DownloadFailed

C18_Witness ==
    /\ ImageDone /\ ~call.wait /\ call.max_retries = 0
    /\ Sent = 0 /\ call.result = DownloadFailed

\* ========================================================= the bearer token

\* C20: with a non-empty token every request the client sends carries
\* Authorization: Bearer <token>; without one no request carries the header.
C20_EveryRequestAuthorized ==
    \A i \in 1..Sent :
        call.op # "health" => call.requests[i].auth =
            IF Truthy(token) THEN "Bearer " \o token ELSE "none"

\* ------------------------------------------------------ claims: from_dict

Mapped == mapping.cls # "none"
RequiredKeys(cls) ==
    {StepsOf(cls)[i].key : i \in {j \in 1..Len(StepsOf(cls)) :
                                     StepsOf(cls)[j].how \in {"index", "date"}}}
LacksRequired == \E k \in RequiredKeys(mapping.cls) : mapping.data[k] = Absent

\* C11: mapping a JSON object that lacks a required key fails with
\* MappingError and produces no record.
C11_MissingKeyIsMappingError ==
    (Mapped /\ LacksRequired)
      => mapping.out.kind = "MappingError" /\ mapping.out.record = << >>

\* C12: in a mapped record, the field of an absent optional key is None,
\* never a placeholder, and every other field equals the value of its JSON
\* key (a date string as the datetime parsed from it).
C12_AbsentOptionalIsNone ==
    (Mapped /\ mapping.out.kind = "record")
      => \A i \in 1..Len(StepsOf(mapping.cls)) :
            LET st == StepsOf(mapping.cls)[i]
                v == mapping.data[st.key]
            IN  mapping.out.record[i] =
                    IF v = Absent THEN "None"
                    ELSE IF st.how \in {"date", "optdate"} /\ v # "None"
                         THEN Parsed(v) ELSE v

C12_Witness ==
    /\ Mapped /\ mapping.cls = "Reminder" /\ mapping.out.kind = "record"
    /\ mapping.data["notes"] = Absent /\ mapping.data["dueDate"] = Absent
    /\ mapping.data["completionDate"] # Absent
    /\ mapping.out.record[5] = "None" /\ mapping.out.record[1] = "None"

\* --------------------------------------------------------- claims: dates

\* The instant of an aware datetime: whole seconds since
\* 2024-01-01T00:00:00Z, and microseconds.
Instant(dt) == <<dt.wall - dt.off, dt.micro>>
Truncated(dt) == <<dt.wall - dt.off, 0>>

\* datetime equality: aware datetimes by instant, naive ones by wall clock,
\* an aware and a naive one never.
SameInstant(a, b) == a.tz = b.tz /\ Instant(a) = Instant(b)

ServerZ == dates.input.zone = "Z" /\ ~dates.input.junk

\* C13: for every server date string that ends in Z, with or without a
\* fractional part, parse, format and parse again yields the same instant
\* as the first parse.
C13_RoundTripSameInstant ==
    (dates.op = "reparsed" /\ ServerZ)
      => /\ dates.again.kind = "datetime"
         /\ SameInstant(dates.first.dt, dates.again.dt)

\* C13 (amended): for every server date string that ends in Z, parse,
\* format and parse again yields the first parse's instant truncated to
\* whole seconds, in UTC; the same instant when the string has no
\* fractional part or a zero one.
C13_RoundTripTruncates ==
    (dates.op \in {"parsed", "formatted", "reparsed"} /\ ServerZ)
      => /\ dates.first.kind = "datetime" /\ dates.first.dt.tz = "aware"
         /\ dates.op = "reparsed" =>
              /\ dates.again.kind = "datetime"
              /\ dates.again.dt.tz = "aware" /\ dates.again.dt.off = 0
              /\ Instant(dates.again.dt) = Truncated(dates.first.dt)
              /\ dates.input.frac \in {NoFrac, 0}
                   => SameInstant(dates.first.dt, dates.again.dt)

C13_Witness ==
    /\ dates.op = "reparsed" /\ ServerZ /\ dates.input.frac = 500000
    /\ dates.first.dt.micro = 500000 /\ dates.again.dt.micro = 0
    /\ dates.again.dt.wall = dates.first.dt.wall

\* C14: an outbound date is emitted as YYYY-MM-DDTHH:MM:SSZ denoting the
\* input's instant in UTC truncated to whole seconds, whatever the input's
\* offset or sub-second part.
C14_OutboundIsUtcInstant ==
    (dates.op = "outbound" /\ dates.given.tz = "aware")
      => /\ dates.text.zone = "Z" /\ dates.text.frac = NoFrac
         /\ ~dates.text.junk
         /\ <<dates.text.wall, 0>> = Truncated(dates.given)

\* ------------------------------------------------------ claims: reminders

T1 == rem.thr["t1"]
Succeeded(th) == th.pc = "done" /\ th.result.kind = "return"
Failed(th) == th.pc = "done" /\ th.result.kind # "return"
CopiedFields ==
    {"title", "notes", "is_completed", "priority", "due_date", "completion_date"}

\* The JSON value a field has in a request that carries it: null for None,
\* the formatted string for a date.
Carried(f, v) ==
    IF v = "None" THEN "None"
    ELSE IF f = "due_date" THEN format_due_date(v) ELSE v

\* C15: save() sends title, notes, priority and due_date with the object's
\* current values, also when notes or due_date is None and when priority
\* is 0; after a successful save the six copied fields equal those of the
\* server's response.
C15_SaveSendsCurrentValues ==
    T1.op = "save"
      => /\ T1.payload["title"] = Carried("title", T1.before.title)
         /\ T1.payload["notes"] = Carried("notes", T1.before.notes)
         /\ T1.payload["priority"] = Carried("priority", T1.before.priority)
         /\ T1.payload["dueDate"] = Carried("due_date", T1.before.due_date)
         /\ Succeeded(T1) => \A f \in CopiedFields : rem.obj[f] = T1.updated[f]

\* C19: when the update request fails, save(), complete() and uncomplete()
\* raise the request's error and leave every field of the object as it was;
\* complete() and uncomplete() send only isCompleted (true resp. false) and
\* on success change only is_completed and completion_date, to the
\* response's values.
C19_FailureLeavesObjectAlone ==
    /\ (T1.pc = "request" \/ Failed(T1)) => rem.obj = T1.before
    /\ Failed(T1)
         => T1.result.kind \in {"NotFoundError", "APIError", "iCloudBridgeError",
                                "JSONDecodeError"}
    /\ T1.op \in {"complete", "uncomplete"}
         => /\ T1.payload["isCompleted"]
                 = (IF T1.op = "complete" THEN "True" ELSE "False")
            /\ \A k \in DOMAIN T1.payload \ {"isCompleted"} :
                  T1.payload[k] = Absent
            /\ \A f \in DOMAIN rem.obj \ {"is_completed", "completion_date"} :
                  rem.obj[f] = T1.before[f]
            /\ Succeeded(T1)
                 => /\ rem.obj.is_completed = T1.updated.is_completed
                    /\ rem.obj.completion_date = T1.updated.completion_date

C19_Witness ==
    /\ T1.op = "complete" /\ Succeeded(T1)
    /\ T1.before.is_completed = "False" /\ rem.obj.is_completed = "True"
    /\ rem.obj.completion_date = Parsed(CompletedAt)
    /\ rem.obj.title = "b" /\ T1.updated.title = "a"

\* C16: when two threads have run save(), complete() or uncomplete() on the
\* same object, the fields the methods copy all come from one single server
\* response, in every interleaving.
C16_FieldsFromOneResponse ==
    (\A t \in Threads : Succeeded(rem.thr[t]))
      => \E t \in Threads :
            \A u \in Threads :
               \A i \in 1..Len(assigned_fields(rem.thr[u].op)) :
                  LET f == assigned_fields(rem.thr[u].op)[i]
                  IN  rem.obj[f] = rem.thr[t].updated[f]

====
